---------------------------- MODULE Spec2Model ----------------------------
(* Model of clang-analyzer.py: the two-phase CTU analysis driver.          *)
(* Text is modelled as sequences of one-character strings, so substring    *)
(* tests, str.replace and the def-map line pattern are computed.           *)
EXTENDS Integers, Sequences, FiniteSets, TLC

(* ------------------------------ bounds -------------------------------- *)
MaxFiles == 2
MaxLines == 2
MaxStripLen == 6
MaxExtra == 1
MaxRecords == 2

(* ------------------------- program constants -------------------------- *)
MaxWorkers == 16
BuildInfoMarker == <<"b", "u", "i", "l", "d", "_", "i", "n", "f", "o">>
TestMarker == <<"t", "e", "s", "t", ".", "c", "c">>
MainMarker == <<"c", ":", "@", "F", "@", "m", "a", "i", "n", "#", "I", "#">>
AstSuffix == <<".", "a", "s", "t">>
CppSuffix == <<"c", "p", "p">>
ErrorMarker == <<"e", "r", "r", "o", "r">>
WarningMarker == <<"w", "a", "r", "n", "i", "n", "g">>
CriticalMarker == <<"c", "r", "i", "t", "i", "c", "a", "l">>
NL == "\n"
SP == " "

(* ------------------- environment: small input pools ------------------- *)
Cwd == <<"/", "w">>
PathA == <<"a", ".", "c", "p", "p">>
PathBuildInfo == <<"b", "u", "i", "l", "d", "_", "i", "n", "f", "o", ".", "c", "p", "p">>
PathTest == <<"a", "_", "t", "e", "s", "t", ".", "c", "c">>
PathPool == {PathA, PathBuildInfo, PathTest}

LineA == <<"f", " ", "x", " ", "/", "w", "/", "a", ".", "c", "p", "p", "\n">>
LineMain == <<"c", ":", "@", "F", "@", "m", "a", "i", "n", "#", "I", "#", " ", "a", ".", "c", "p", "p", "\n">>
LineBad == <<"g", " ", "b", ".", "c", "c", "\n">>
LineUnknown == <<"h", " ", "z", ".", "c", "p", "p", "\n">>
LinePool == {LineA, LineMain, LineBad, LineUnknown}
RunLines == {LineA, LineBad, LineUnknown}

ErrError == <<"e", "r", "r", "o", "r">>
ErrWarning == <<"a", " ", "w", "a", "r", "n", "i", "n", "g", "\n">>
ErrCritical == <<"c", "r", "i", "t", "i", "c", "a", "l">>
ErrUpper == <<"E", "r", "r", "o", "r">>
ExitStatuses == {0, 1}
OutcomePool ==
    {[stderr |-> ErrError, returncode |-> 1],
     [stderr |-> ErrWarning, returncode |-> 0],
     [stderr |-> ErrCritical, returncode |-> 1],
     [stderr |-> ErrUpper, returncode |-> 0],
     [stderr |-> ErrUpper, returncode |-> 1]}
QuietOutcome == {[stderr |-> ErrUpper, returncode |-> 0]}

DirSrc == <<"/", "w">>
CommandA == <<"g", "+", "+", " ", "-", "c", " ", "a", ".", "c", "p", "p">>
CommandBuildInfo == <<"g", "+", "+", " ", "-", "c", " ", "b", "u", "i", "l", "d", "_", "i", "n", "f", "o", ".", "c", "p", "p">>
CommandTest == <<"g", "+", "+", " ", "-", "c", " ", "a", "_", "t", "e", "s", "t", ".", "c", "c">>
RecordA == [command |-> CommandA, directory |-> DirSrc, file |-> PathA]
RecordBuildInfo == [command |-> CommandBuildInfo, directory |-> DirSrc, file |-> PathBuildInfo]
RecordTest == [command |-> CommandTest, directory |-> DirSrc, file |-> PathTest]

OldResults == <<"o", "l", "d", "\n">>
None == "none"

(* --------------------------- text functions --------------------------- *)
\* Python `sub in s` / `s.find(sub) >= 0`
Contains(s, sub) ==
    \E k \in 0..(Len(s) - Len(sub)) : SubSeq(s, k + 1, k + Len(sub)) = sub

\* Python s.replace(old, ""): left to right, non-overlapping occurrences
RECURSIVE RemoveAll(_, _)
RemoveAll(s, old) ==
    IF Len(s) < Len(old) THEN s
    ELSE IF SubSeq(s, 1, Len(old)) = old
         THEN RemoveAll(SubSeq(s, Len(old) + 1, Len(s)), old)
         ELSE <<Head(s)>> \o RemoveAll(Tail(s), old)

\* line.replace(f"{os.getcwd()}/", "") in the working directory cwd
Strip(line, cwd) == RemoveAll(line, cwd \o <<"/">>)

StripCwd(line) == Strip(line, Cwd)

IsSpace(c) == c \in {SP, NL}

\* `$`: end of string, or just before one trailing newline
MatchEnd(line) ==
    IF Len(line) > 0 /\ line[Len(line)] = NL THEN Len(line) - 1 ELSE Len(line)

\* \S+.cpp$ on line[p+1 .. e]
FileTokenAt(line, p, e) ==
    /\ e - p >= 5
    /\ SubSeq(line, e - 2, e) = CppSuffix
    /\ line[e - 3] # NL
    /\ \A q \in (p + 1)..(e - 4) : ~IsSpace(line[q])

\* positions of the separating space at which (.*) (\S+.cpp)$ matches
SplitPositions(line) ==
    {p \in 1..MatchEnd(line) :
        /\ line[p] = SP
        /\ \A q \in 1..(p - 1) : line[q] # NL
        /\ FileTokenAt(line, p, MatchEnd(line))}

MaxOf(S) == CHOOSE x \in S : \A y \in S : y <= x

\* re.match(r"(.*) (\S+.cpp)$", line): greedy first group
Match(line) ==
    IF SplitPositions(line) = {}
    THEN [ok |-> FALSE, m1 |-> <<>>, m2 |-> <<>>]
    ELSE LET p == MaxOf(SplitPositions(line))
         IN [ok |-> TRUE,
             m1 |-> SubSeq(line, 1, p - 1),
             m2 |-> SubSeq(line, p + 1, MatchEnd(line))]

\* variant: main lines are not filtered out
IsMainSymbolNever(sym) == FALSE

\* m[1].find("c:@F@main#I#") >= 0
IsMainSymbol(sym) == Contains(sym, MainMarker)

\* m[2] not in paths
Unresolved(name, paths) == name \notin DOMAIN paths

\* variant: the matched filename is written without being mapped
EmitLineUnmapped(sym, name, paths) == sym \o <<SP>> \o name \o <<NL>>

\* f"{m[1]} {paths[m[2]]}\n"
EmitLine(sym, name, paths) == sym \o <<SP>> \o paths[name] \o <<NL>>

\* positions of fs at which a value occurs for the first time
FirstAt(fs) == {k \in DOMAIN fs : \A q \in 1..(k - 1) : fs[q] # fs[k]}

\* keys of a dict filled from fs, in insertion order
Keys(fs) ==
    [j \in 1..Cardinality(FirstAt(fs)) |->
        fs[CHOOSE k \in FirstAt(fs) :
               Cardinality({q \in FirstAt(fs) : q < k}) = j - 1]]

\* the read-rewrite loop of generate_external_def_map over lines k..Len(lines);
\* out is the final artifact's content, src the input line of each output line
RECURSIVE RewriteLines(_, _, _, _, _, _)
RewriteLines(lines, k, paths, keys, out, src) ==
    IF k > Len(lines)
    THEN [status |-> "done", err |-> None, out |-> out, src |-> src,
          printed |-> <<>>, at |-> 0]
    ELSE LET line == StripCwd(lines[k])
             m == Match(line)
         IN IF ~m.ok
            THEN [status |-> "raised", err |-> "illegal line", out |-> out,
                  src |-> src, printed |-> <<>>, at |-> k]
            ELSE IF IsMainSymbol(m.m1)
            THEN RewriteLines(lines, k + 1, paths, keys, out, src)
            ELSE IF Unresolved(m.m2, paths)
            THEN [status |-> "raised", err |-> "not found", out |-> out,
                  src |-> src, printed |-> keys, at |-> k]
            ELSE RewriteLines(lines, k + 1, paths, keys,
                              Append(out, EmitLine(m.m1, m.m2, paths)),
                              Append(src, k))

\* variant: the "critical" marker is not looked for
FixNeededNoCritical(stderr) ==
    \/ Contains(stderr, ErrorMarker)
    \/ Contains(stderr, WarningMarker)

\* "error" in stderr or "warning" in stderr or "critical" in stderr
FixNeeded(stderr) ==
    \/ Contains(stderr, ErrorMarker)
    \/ Contains(stderr, WarningMarker)
    \/ Contains(stderr, CriticalMarker)

\* variant: no path is recognised as build metadata
IsBuildInfoNever(path) == FALSE

\* cc_path.find("build_info") >= 0
IsBuildInfo(path) == Contains(path, BuildInfoMarker)

\* variant: results.txt opened with mode 'w'
OverwriteFile(old, text) == [exists |-> TRUE, data |-> text]

\* open('results.txt', 'a') ... write(text)
AppendToFile(old, text) ==
    [exists |-> TRUE, data |-> (IF old.exists THEN old.data ELSE <<>>) \o text]

\* variant: sys.exit(r)
ExitStatusOfResult(r) == IF r = 0 THEN 0 ELSE 1

\* sys.exit(1) after main returned r
ExitStatus(r) == 1

\* exit status of the interpreter when main's exception is not caught
UncaughtExitStatus == 1

(* ------------------------ command line functions ---------------------- *)
DashC == <<"-", "c">>
ClangXX == <<"c", "l", "a", "n", "g", "+", "+">>
EmitAstFlag == <<"-", "e", "m", "i", "t", "-", "a", "s", "t">>
OutputFlag == <<"-", "o">>
AnalyzeFlag == <<"-", "-", "a", "n", "a", "l", "y", "z", "e">>
Xclang == <<"-", "X", "c", "l", "a", "n", "g">>
AnalyzerConfig == <<"-", "a", "n", "a", "l", "y", "z", "e", "r", "-", "c", "o", "n", "f", "i", "g">>
EnableCtu == <<"e", "x", "p", "e", "r", "i", "m", "e", "n", "t", "a", "l", "-", "e", "n", "a", "b", "l", "e", "-", "n", "a", "i", "v", "e", "-", "c", "t", "u", "-", "a", "n", "a", "l", "y", "s", "i", "s", "=", "t", "r", "u", "e">>
CtuDirPrefix == <<"c", "t", "u", "-", "d", "i", "r", "=">>
AnalyzerOutput == <<"-", "a", "n", "a", "l", "y", "z", "e", "r", "-", "o", "u", "t", "p", "u", "t", "=", "p", "l", "i", "s", "t", "-", "m", "u", "l", "t", "i", "-", "f", "i", "l", "e">>
ExtDefMapping == <<"c", "l", "a", "n", "g", "-", "e", "x", "t", "d", "e", "f", "-", "m", "a", "p", "p", "i", "n", "g", "-", "1", "2">>
ProjectFlag == <<"-", "p">>
Dot == <<".">>
Quotes == {"'", "\""}
Escape == "\\"

\* characters in code point order, as compared by sorted()
CharOrder == <<" ", "\"", "#", "'", "+", "-", ".", "/", "0", "1", "2", "3", "4", "5", "6", "7", "8", "9", ":", "=", "@", "A", "B", "C", "D", "E", "F", "G", "H", "I", "J", "K", "L", "M", "N", "O", "P", "Q", "R", "S", "T", "U", "V", "W", "X", "Y", "Z", "\\", "_", "a", "b", "c", "d", "e", "f", "g", "h", "i", "j", "k", "l", "m", "n", "o", "p", "q", "r", "s", "t", "u", "v", "w", "x", "y", "z">>

Code(c) == CHOOSE k \in 1..Len(CharOrder) : CharOrder[k] = c

\* a < b for Python strings
RECURSIVE LexLess(_, _)
LexLess(a, b) ==
    IF b = <<>> THEN FALSE
    ELSE IF a = <<>> THEN TRUE
    ELSE IF Head(a) = Head(b) THEN LexLess(Tail(a), Tail(b))
    ELSE Code(Head(a)) < Code(Head(b))

\* sorted(l)
Sorted(l) == SortSeq(l, LexLess)

\* shlex.split(s), POSIX rules: st is the lexer state ("sp" between tokens,
\* "a" in a word, a quote character inside quotes, "esc" after a backslash,
\* back the state to return to), tok the token read so far
RECURSIVE Shlex(_, _, _, _, _, _)
Shlex(s, k, st, back, tok, acc) ==
    IF k > Len(s)
    THEN IF st = "sp" THEN [ok |-> TRUE, args |-> acc]
         ELSE IF st = "a" THEN [ok |-> TRUE, args |-> Append(acc, tok)]
         ELSE [ok |-> FALSE, args |-> acc]
    ELSE LET c == s[k] IN
         IF st = "esc"
         THEN Shlex(s, k + 1, back, back,
                    IF back \in Quotes /\ c # Escape /\ c # back
                    THEN tok \o <<Escape, c>> ELSE Append(tok, c), acc)
         ELSE IF st \in Quotes
         THEN IF c = st THEN Shlex(s, k + 1, "a", back, tok, acc)
              ELSE IF c = Escape /\ st = "\""
              THEN Shlex(s, k + 1, "esc", st, tok, acc)
              ELSE Shlex(s, k + 1, st, back, Append(tok, c), acc)
         ELSE IF IsSpace(c)
         THEN IF st = "a" THEN Shlex(s, k + 1, "sp", back, <<>>, Append(acc, tok))
              ELSE Shlex(s, k + 1, "sp", back, <<>>, acc)
         ELSE IF c \in Quotes THEN Shlex(s, k + 1, c, back, tok, acc)
         ELSE IF c = Escape THEN Shlex(s, k + 1, "esc", "a", tok, acc)
         ELSE Shlex(s, k + 1, "a", back, Append(tok, c), acc)

ShlexSplit(s) == Shlex(s, 1, "sp", "a", <<>>, <<>>).args

\* CompileCommand(cmdline=shlex.split(cmd.command), directory=..., path=cmd.file)
CompileCommand(rec) ==
    [cmdline |-> ShlexSplit(rec.command), directory |-> rec.directory,
     path |-> rec.file]

\* variant: an entry already stored for the file is kept
StoreFirst(prev, rec) ==
    [p \in DOMAIN prev \cup {rec.file} |->
        IF p \in DOMAIN prev THEN prev[p] ELSE CompileCommand(rec)]

\* self._cmds[cmd.file] = CompileCommand(...)
Store(prev, rec) ==
    [p \in DOMAIN prev \cup {rec.file} |->
        IF p = rec.file THEN CompileCommand(rec) ELSE prev[p]]

\* CompileCommands.__init__: the records are stored in file order
RECURSIVE ParseDatabase(_)
ParseDatabase(js) ==
    IF js = <<>> THEN <<>>
    ELSE Store(ParseDatabase(SubSeq(js, 1, Len(js) - 1)), js[Len(js)])

\* CompileCommands.find: self._cmds[path], KeyError when absent
Find(cs, path) ==
    IF path \in DOMAIN cs THEN [ok |-> TRUE, cmd |-> cs[path]]
    ELSE [ok |-> FALSE, cmd |-> [cmdline |-> <<>>, directory |-> <<>>, path |-> <<>>]]

\* os.path.join(a, b)
PathJoin(a, b) ==
    IF b # <<>> /\ Head(b) = "/" THEN b
    ELSE IF a = <<>> \/ a[Len(a)] = "/" THEN a \o b
    ELSE a \o <<"/">> \o b

\* llvm_binary_path(filename)
LlvmBinaryPath(llvm_bin_dir, filename) ==
    IF llvm_bin_dir # <<>> THEN PathJoin(llvm_bin_dir, filename) ELSE filename

\* variant: only the first "-c" is removed
DropFirstCompileOnly(cmdline) ==
    IF \E k \in 1..Len(cmdline) : cmdline[k] = DashC
    THEN LET k == CHOOSE n \in 1..Len(cmdline) :
                     cmdline[n] = DashC /\ \A q \in 1..(n - 1) : cmdline[q] # DashC
         IN SubSeq(cmdline, 1, k - 1) \o SubSeq(cmdline, k + 1, Len(cmdline))
    ELSE cmdline

\* [x for x in cmd.cmdline if x != "-c"]
DropCompileOnly(cmdline) == SelectSeq(cmdline, LAMBDA x : x # DashC)

\* cmdline[1:]
Rest(cmdline) == SubSeq(cmdline, 2, Len(cmdline))

\* lines 105-110: the command line of the AST-emitting compiler
AstCmdline(cmd, llvm_bin_dir, cwd, ast_path) ==
    <<LlvmBinaryPath(llvm_bin_dir, ClangXX), EmitAstFlag, OutputFlag,
      PathJoin(cwd, ast_path)>>
    \o Rest(DropCompileOnly(cmd.cmdline))

\* lines 136-150: the command line of the analyzer
AnalyzeCmdline(cmd, llvm_bin_dir, source_dir) ==
    <<LlvmBinaryPath(llvm_bin_dir, ClangXX), AnalyzeFlag,
      Xclang, AnalyzerConfig, Xclang, EnableCtu,
      Xclang, AnalyzerConfig, Xclang, CtuDirPrefix \o source_dir,
      Xclang, AnalyzerOutput>>
    \o Rest(DropCompileOnly(cmd.cmdline))

\* [path for path in paths.keys() if path.find("test.cc") < 0]
NonTestPaths(keys) == SelectSeq(keys, LAMBDA p : ~Contains(p, TestMarker))

\* the command line of the mapping tool, lines 69-70
MapCmdline(llvm_bin_dir, keys) ==
    <<LlvmBinaryPath(llvm_bin_dir, ExtDefMapping), ProjectFlag, Dot>>
    \o Sorted(NonTestPaths(keys))

\* variant: subprocess.run(..., check=True)
CallRaisesChecked(returncode) == returncode # 0

\* subprocess.run(cmdline, **kwargs) without check=True: the exit status of
\* the process does not raise
CallRaises(returncode) == FALSE

(* ------------------------------- state -------------------------------- *)
VARIABLES
    files,        \* args.files after --exclude
    cmds,         \* CompileCommands._cmds
    ast_path_map, \* cc_path -> cc_path + ".ast"
    results,      \* futures in submission order
    pc,           \* position of the main thread
    i,            \* index of the loop the main thread is in
    orgFile,      \* ./externalDefMap.txt.org, as lines
    defMapFile,   \* ./externalDefMap.txt, as lines
    defMapSrc,    \* for each line of defMapFile, the line of orgFile it came from
    printed,      \* keys printed by generate_external_def_map
    fixNeeded,    \* the report buffer
    runs,         \* completed analyzer invocations, in order
    active,       \* analyzer invocations in progress
    resultsFile,  \* results.txt
    resultsFile0, \* results.txt before the run
    result,       \* <<r>> once main returned r
    error,        \* the exception that left main
    exitCode,     \* <<c>> once the process exited with status c
    args,         \* the parsed command line options
    mapLines,     \* the lines the mapping tool can print
    outcomes,     \* the (stderr, exit status) pairs the analyzer can end with
    ordered,      \* whether the compiler processes end in the order they began
    mapArgs,      \* the command line the mapping tool was run with
    cmd_output,   \* the CompletedProcess of the last analyzer run
    call,         \* arguments of the function under examination
    ret           \* what the function under examination returned

vars == <<files, cmds, ast_path_map, results, pc, i, orgFile, defMapFile,
          defMapSrc, printed, fixNeeded, runs, active, resultsFile,
          resultsFile0, result, error, exitCode, args, mapLines, outcomes,
          ordered, mapArgs, cmd_output, call, ret>>

Range(f) == {f[k] : k \in DOMAIN f}

FileLists == UNION {[1..n -> PathPool] : n \in 0..MaxFiles}
Databases == {<<RecordA, RecordBuildInfo, RecordTest>>, <<RecordTest>>}
ToolOutputs(lines) == UNION {[1..n -> lines] : n \in 0..MaxLines}
DefaultArgs == [llvm_bin_dir |-> <<>>, source_dir |-> Dot]
NoOutput == [stderr |-> <<>>, returncode |-> 0]
NoFile == [exists |-> FALSE, data |-> <<>>]
NoError == [task |-> 0, err |-> None]

\* the loop at lines 118-120
AstPathMap(fs) == [p \in Range(fs) |-> p \o AstSuffix]

Future(kind, path) ==
    [kind |-> kind, path |-> path, state |-> "pending", err |-> None, at |-> 0]

\* variant: a future whose task raised never counts as finished
FinishedDoneOnly(f) == f.state = "done"

\* Future.done(): the task returned or raised
Finished(f) == f.state \in {"done", "raised"}

\* variant: result() does not block on a future that is still running
ResultReadyEarly(f) == f.state # "pending"

\* Future.result() returns or raises once the future has finished
ResultReady(f) == Finished(f)

\* variant: the outcome of the def-map future is not looked at
RaisesCompileOnly(f) == f.state = "raised" /\ f.kind = "compile"

\* Future.result() re-raises the exception of a failed task
Raises(f) == f.state = "raised"

Running == {t \in DOMAIN results : results[t].state = "running"}

\* the state at line 122, for the given inputs and environment
Start(fileLists, dbs, lines, outs, inOrder) ==
    /\ files \in fileLists
    /\ ordered = inOrder
    /\ \E js \in dbs : cmds = ParseDatabase(js)
    /\ args = DefaultArgs
    /\ mapLines = lines
    /\ outcomes = outs
    /\ mapArgs = <<>>
    /\ cmd_output = NoOutput
    /\ ast_path_map = AstPathMap(files)
    /\ results = <<>>
    /\ pc = "submit_defmap"
    /\ i = 1
    /\ orgFile = <<>>
    /\ defMapFile = <<>>
    /\ defMapSrc = <<>>
    /\ printed = <<>>
    /\ fixNeeded = <<>>
    /\ runs = <<>>
    /\ active = 0
    /\ resultsFile \in {NoFile, [exists |-> TRUE, data |-> OldResults]}
    /\ resultsFile0 = resultsFile
    /\ result = <<>>
    /\ error = NoError
    /\ exitCode = <<>>

NoCall == call = <<>> /\ ret = <<>>

Init == Start(FileLists, Databases, RunLines, OutcomePool, FALSE) /\ NoCall

(* ------------------------- main thread: phase one --------------------- *)
\* pool.submit(generate_external_def_map, args, ast_path_map)
SubmitDefMap ==
    /\ pc = "submit_defmap"
    /\ results' = Append(results, Future("defmap", <<>>))
    /\ pc' = "submit"
    /\ i' = 1
    /\ UNCHANGED <<args, mapLines, outcomes, ordered, call, ret, mapArgs, cmd_output>>
    /\ UNCHANGED <<files, cmds, ast_path_map, orgFile, defMapFile, defMapSrc,
                   printed, fixNeeded, runs, active, resultsFile, resultsFile0,
                   result, error, exitCode>>

\* one iteration of the loop at lines 125-128, or its exit
SubmitCompile ==
    /\ pc = "submit"
    /\ IF i > Len(files)
       THEN /\ pc' = "wait"
            /\ i' = 1
            /\ UNCHANGED results
       ELSE /\ results' = IF IsBuildInfo(files[i])
                          THEN results
                          ELSE Append(results, Future("compile", files[i]))
            /\ i' = i + 1
            /\ UNCHANGED pc
    /\ UNCHANGED <<args, mapLines, outcomes, ordered, call, ret, mapArgs, cmd_output>>
    /\ UNCHANGED <<files, cmds, ast_path_map, orgFile, defMapFile, defMapSrc,
                   printed, fixNeeded, runs, active, resultsFile, resultsFile0,
                   result, error, exitCode>>

\* one iteration of `for r in results: r.result()`, or the loop's exit
AwaitResult ==
    /\ pc = "wait"
    /\ IF i > Len(results)
       THEN /\ pc' = "analyze"
            /\ i' = 1
            /\ UNCHANGED error
       ELSE /\ ResultReady(results[i])
            /\ IF Raises(results[i])
               THEN /\ pc' = "aborted"
                    /\ error' = [task |-> i, err |-> results[i].err]
                    /\ UNCHANGED i
               ELSE /\ i' = i + 1
                    /\ UNCHANGED <<pc, error>>
    /\ UNCHANGED <<args, mapLines, outcomes, ordered, call, ret, mapArgs, cmd_output>>
    /\ UNCHANGED <<files, cmds, ast_path_map, results, orgFile, defMapFile,
                   defMapSrc, printed, fixNeeded, runs, active, resultsFile,
                   resultsFile0, result, exitCode>>

(* ------------------------------ pool workers -------------------------- *)
\* variant: a thread is started for every work item
WorkerFreeAlways == TRUE

\* ThreadPoolExecutor(max_workers=16): at most 16 worker threads exist, and
\* each runs one work item at a time
WorkerFree == Cardinality(Running) < MaxWorkers

\* a worker takes the oldest queued work item
WorkerStart(t) ==
    /\ results[t].state = "pending"
    /\ \A u \in 1..(t - 1) : results[u].state # "pending"
    /\ WorkerFree
    /\ results' = [results EXCEPT ![t].state = "running"]
    /\ UNCHANGED <<args, mapLines, outcomes, ordered, call, ret, mapArgs, cmd_output>>
    /\ UNCHANGED <<files, cmds, ast_path_map, pc, i, orgFile, defMapFile,
                   defMapSrc, printed, fixNeeded, runs, active, resultsFile,
                   resultsFile0, result, error, exitCode>>

\* compile_file(cc_path): commands.find raises KeyError, or clang++ runs
CompileFinish(t) ==
    /\ results[t].kind = "compile"
    /\ results[t].state = "running"
    /\ ordered => \A u \in 1..(t - 1) :
                     results[u].kind = "compile" => results[u].state # "running"
    /\ \E status \in ExitStatuses :
         results' = IF ~Find(cmds, results[t].path).ok
                    THEN [results EXCEPT ![t].state = "raised",
                                         ![t].err = "KeyError"]
                    ELSE IF CallRaises(status)
                    THEN [results EXCEPT ![t].state = "raised",
                                         ![t].err = "CalledProcessError"]
                    ELSE [results EXCEPT ![t].state = "done"]
    /\ UNCHANGED <<args, mapLines, outcomes, ordered, call, ret, mapArgs, cmd_output>>
    /\ UNCHANGED <<files, cmds, ast_path_map, pc, i, orgFile, defMapFile,
                   defMapSrc, printed, fixNeeded, runs, active, resultsFile,
                   resultsFile0, result, error, exitCode>>

\* generate_external_def_map(args, ast_path_map): the mapping tool's output is
\* any list of lines; both artifacts are opened for writing and rewritten
DefMapFinish(t) ==
    /\ results[t].kind = "defmap"
    /\ results[t].state = "running"
    /\ mapArgs' = MapCmdline(args.llvm_bin_dir, Keys(files))
    /\ \E out \in ToolOutputs(mapLines), status \in ExitStatuses :
         LET r == RewriteLines(out, 1, ast_path_map, Keys(files), <<>>, <<>>)
         IN /\ orgFile' = out
            /\ IF CallRaises(status)
               THEN /\ results' = [results EXCEPT ![t].state = "raised",
                                                  ![t].err = "CalledProcessError"]
                    /\ UNCHANGED <<defMapFile, defMapSrc, printed>>
               ELSE /\ defMapFile' = r.out
                    /\ defMapSrc' = r.src
                    /\ printed' = r.printed
                    /\ results' = [results EXCEPT ![t].state = r.status,
                                                  ![t].err = r.err,
                                                  ![t].at = r.at]
    /\ UNCHANGED <<args, mapLines, outcomes, ordered, call, ret, cmd_output>>
    /\ UNCHANGED <<files, cmds, ast_path_map, pc, i, fixNeeded, runs, active,
                   resultsFile, resultsFile0, result, error, exitCode>>

(* ------------------------- main thread: phase two --------------------- *)
\* lines 133-151: commands.find(cc_path), then the analyzer is started
AnalyzeStart ==
    /\ pc = "analyze"
    /\ IF i > Len(files)
       THEN /\ pc' = "final"
            /\ UNCHANGED <<active, error>>
       ELSE IF Find(cmds, files[i]).ok
            THEN /\ pc' = "analyzing"
                 /\ active' = active + 1
                 /\ UNCHANGED error
            ELSE /\ pc' = "aborted"
                 /\ error' = [task |-> 0, err |-> "KeyError"]
                 /\ UNCHANGED active
    /\ UNCHANGED <<args, mapLines, outcomes, ordered, call, ret, mapArgs, cmd_output>>
    /\ UNCHANGED <<files, cmds, ast_path_map, results, i, orgFile, defMapFile,
                   defMapSrc, printed, fixNeeded, runs, resultsFile,
                   resultsFile0, result, exitCode>>

\* lines 151-156: the analyzer returns, its stderr is classified
AnalyzeFinish ==
    /\ pc = "analyzing"
    /\ active' = active - 1
    /\ \E o \in outcomes :
         IF CallRaises(o.returncode)
         THEN /\ pc' = "aborted"
              /\ error' = [task |-> 0, err |-> "CalledProcessError"]
              /\ UNCHANGED <<runs, fixNeeded, i, cmd_output>>
         ELSE /\ cmd_output' = o
              /\ runs' = Append(runs, [path |-> files[i], stderr |-> o.stderr])
              /\ fixNeeded' = IF FixNeeded(o.stderr) THEN fixNeeded \o o.stderr
                              ELSE fixNeeded
              /\ i' = i + 1
              /\ pc' = "analyze"
              /\ UNCHANGED error
    /\ UNCHANGED <<args, mapLines, outcomes, ordered, call, ret, mapArgs>>
    /\ UNCHANGED <<files, cmds, ast_path_map, results, orgFile, defMapFile,
                   defMapSrc, printed, resultsFile, resultsFile0, result,
                   exitCode>>

\* lines 158-163
Finalize ==
    /\ pc = "final"
    /\ IF fixNeeded = <<>>
       THEN /\ result' = <<0>>
            /\ UNCHANGED resultsFile
       ELSE /\ resultsFile' = AppendToFile(resultsFile, fixNeeded)
            /\ result' = << -1 >>
    /\ pc' = "returned"
    /\ UNCHANGED <<args, mapLines, outcomes, ordered, call, ret, mapArgs, cmd_output>>
    /\ UNCHANGED <<files, cmds, ast_path_map, results, i, orgFile, defMapFile,
                   defMapSrc, printed, fixNeeded, runs, active, resultsFile0,
                   error, exitCode>>

\* sys.exit(1), or the uncaught exception ends the interpreter; the
\* interpreter joins the pool's worker threads before the process exits
Exit ==
    /\ pc \in {"returned", "aborted"}
    /\ \A t \in DOMAIN results : Finished(results[t])
    /\ exitCode' = IF pc = "returned" THEN <<ExitStatus(result[1])>>
                   ELSE <<UncaughtExitStatus>>
    /\ pc' = "exited"
    /\ UNCHANGED <<args, mapLines, outcomes, ordered, call, ret, mapArgs, cmd_output>>
    /\ UNCHANGED <<files, cmds, ast_path_map, results, i, orgFile, defMapFile,
                   defMapSrc, printed, fixNeeded, runs, active, resultsFile,
                   resultsFile0, result, error>>

Next ==
    \/ SubmitDefMap
    \/ SubmitCompile
    \/ AwaitResult
    \/ \E t \in DOMAIN results : WorkerStart(t)
    \/ \E t \in DOMAIN results : CompileFinish(t)
    \/ \E t \in DOMAIN results : DefMapFinish(t)
    \/ AnalyzeStart
    \/ AnalyzeFinish
    \/ Finalize
    \/ Exit

Spec == Init /\ [][Next]_vars

\* the same program with every kind of mapping-tool line and a quiet analyzer
InitDefMap ==
    /\ Start(FileLists, {<<RecordA, RecordBuildInfo, RecordTest>>}, LinePool,
             QuietOutcome, FALSE)
    /\ NoCall

SpecDefMap == InitDefMap /\ [][Next]_vars

\* the same program given more files than the pool has workers, compiler
\* processes that end in the order they began, a mapping tool that prints
\* nothing and a quiet analyzer
Letters == <<"a", "b", "c", "d", "e", "f", "g", "h", "i", "j", "k", "l", "m",
             "n", "o", "p", "q", "r", "s", "t", "u", "v", "w", "x", "y", "z">>
PoolPath(n) == <<Letters[n]>> \o CppSuffix
PoolRecord(n) ==
    [command |-> <<"g", "+", "+", " ", "-", "c", " ">> \o PoolPath(n),
     directory |-> DirSrc, file |-> PoolPath(n)]
PoolFiles == [n \in 1..(MaxWorkers + MaxExtra) |-> PoolPath(n)]
PoolDatabase == [n \in 1..(MaxWorkers + MaxExtra) |-> PoolRecord(n)]

InitPool == Start({PoolFiles}, {PoolDatabase}, {}, QuietOutcome, TRUE) /\ NoCall

SpecPool == InitPool /\ [][Next]_vars

\* while a thread can take a step or a started external process can end,
\* one of them eventually does
Fairness == WF_vars(Next)

\* an analyzer that ends with or without a finding and a nonzero exit status
LiveOutcomes ==
    {[stderr |-> ErrWarning, returncode |-> 1],
     [stderr |-> ErrUpper, returncode |-> 0]}

\* a mapping tool that prints lines the build accepts or rejects
LiveLines == {LineA, LineBad}

InitLive ==
    \/ Start(FileLists, Databases, LiveLines, LiveOutcomes, FALSE) /\ NoCall
    \/ InitPool

FairSpec == InitLive /\ [][Next]_vars /\ Fairness

(* --------------------- functions examined on their own ---------------- *)
\* the program's variables, which a function examined on its own leaves alone
program == <<files, cmds, ast_path_map, results, pc, i, orgFile, defMapFile,
             defMapSrc, printed, fixNeeded, runs, active, resultsFile,
             resultsFile0, result, error, exitCode, args, mapLines, outcomes,
             ordered, mapArgs, cmd_output>>

\* a program that was given no file and an empty database
Idle == Start({<<>>}, {<<>>}, {}, {}, FALSE)

StripChars == {"/", "w", "a"}
StripLines == UNION {[1..n -> StripChars] : n \in 0..MaxStripLen}
WorkDirs == {Cwd, <<"/">>, <<"/", "w", "a">>}

InitStrip ==
    /\ Idle
    /\ call \in [cwd : WorkDirs, line : StripLines]
    /\ ret = <<>>

\* the stripping step of line 78 applied to the line
StripOnce ==
    /\ ret = <<>>
    /\ ret' = <<Strip(call.line, call.cwd)>>
    /\ UNCHANGED <<program, call>>

\* the stripping step applied to the stripped line
StripAgain ==
    /\ Len(ret) = 1
    /\ ret' = Append(ret, Strip(ret[1], call.cwd))
    /\ UNCHANGED <<program, call>>

NextStrip == StripOnce \/ StripAgain

SpecStrip == InitStrip /\ [][NextStrip]_vars

\* the database is parsed and a command is looked up and rewritten
CommandTwice == <<"g", "+", "+", " ", "-", "c", " ", "-", "O", "2", " ", "-", "c", " ", "a", ".", "c", "p", "p">>
CommandQuoted == <<"c", "c", " ", "'", "-", "c", "'", " ", "\"", "a", " ", "b", ".", "c", "p", "p", "\"", " ", "-", "c">>
DirOther == <<"/", "x">>
BinDir == <<"/", "l">>
CmdRecords ==
    [command : {CommandA, CommandTwice, CommandQuoted},
     directory : {DirSrc, DirOther}, file : {PathA, PathTest}]
CmdDatabases == UNION {[1..n -> CmdRecords] : n \in 0..MaxRecords}

InitCmd ==
    /\ call \in [js : CmdDatabases, path : PathPool,
                  llvm_bin_dir : {<<>>, BinDir}]
    /\ Start({<<>>}, {call.js}, {}, {}, FALSE)
    /\ ret = <<>>

\* commands.find(cc_path)
FindCall ==
    /\ ret = <<>>
    /\ ret' = <<Find(cmds, call.path)>>
    /\ UNCHANGED <<program, call>>

\* lines 105-110 for the command found
AstCall ==
    /\ Len(ret) = 1
    /\ ret[1].ok
    /\ ret' = Append(ret, AstCmdline(ret[1].cmd, call.llvm_bin_dir, Cwd,
                                     call.path \o AstSuffix))
    /\ UNCHANGED <<program, call>>

\* lines 136-150 for the command found
AnalyzeCall ==
    /\ Len(ret) = 2
    /\ ret' = Append(ret, AnalyzeCmdline(ret[1].cmd, call.llvm_bin_dir,
                                         args.source_dir))
    /\ UNCHANGED <<program, call>>

NextCmd == FindCall \/ AstCall \/ AnalyzeCall

SpecCmd == InitCmd /\ [][NextCmd]_vars

(* ------------------------------- claims ------------------------------- *)
AllFinished == \A t \in DOMAIN results : results[t].state \in {"done", "raised"}

AnalyzerStarted == active > 0 \/ runs # <<>>

\* C1: no analyzer invocation starts until the def-map build task and every
\* submitted AST-generation task have finished, by returning or by raising.
C1_Barrier ==
    AnalyzerStarted =>
        /\ pc \notin {"submit_defmap", "submit", "wait"}
        /\ Len(results) >= 1
        /\ results[1].kind = "defmap"
        /\ AllFinished

\* an analyzer invocation is in progress after the def-map build and at least
\* one AST-generation task have finished
C1_Witness ==
    /\ active = 1
    /\ Len(results) >= 2
    /\ AllFinished

LeftWaitLoop == pc \notin {"submit_defmap", "submit", "wait"}

\* C2: control leaves the wait loop of main, normally or by a propagated
\* error, only after every submitted phase-one task has finished; no task is
\* pending or running when the error reaches the caller.
C2_WaitsForAll == LeftWaitLoop => AllFinished

Raised == {t \in DOMAIN results : results[t].state = "raised"}

\* C3: when phase-one tasks raise, the error of each of them has been
\* propagated to the caller by the time the process exits.
C3_EveryCauseSurfaced ==
    pc = "exited" => \A t \in Raised : error.task = t

MissingFromDatabase == {k \in 1..Len(files) : files[k] \notin DOMAIN cmds}

\* C4: if any file of the input list has no entry in the compilation
\* database, no analyzer invocation is started for any file, whatever the
\* position of the missing file and whether or not it contains build_info.
C4_MissingEntryNoAnalysis ==
    MissingFromDatabase # {} => ~AnalyzerStarted

\* a is a contiguous piece of s
HasSub(s, a) ==
    \E x \in 0..(Len(s) - Len(a)) : \A j \in 1..Len(a) : s[x + j] = a[j]

HasFailureMarker(text) ==
    \E mk \in {ErrorMarker, WarningMarker, CriticalMarker} : HasSub(text, mk)

RECURSIVE FlaggedText(_)
FlaggedText(rs) ==
    IF rs = <<>> THEN <<>>
    ELSE (IF HasFailureMarker(Head(rs).stderr) THEN Head(rs).stderr ELSE <<>>)
         \o FlaggedText(Tail(rs))

\* C5: analysis is sequential in file-list order and the report buffer is the
\* concatenation, in file-list order, of the full stderr of exactly the runs
\* whose stderr contains "error", "warning" or "critical"; at most one
\* analyzer invocation is in progress at any time.
C5_ReportBufferExact ==
    /\ active <= 1
    /\ Len(runs) <= Len(files)
    /\ \A k \in 1..Len(runs) : runs[k].path = files[k]
    /\ fixNeeded = FlaggedText(runs)
    /\ pc \in {"final", "returned"} => Len(runs) = Len(files)

\* the analysis phase ended after a flagged run and a run whose stderr is
\* non-empty but holds no marker
C5_Witness ==
    /\ pc = "final"
    /\ \E k \in 1..Len(runs) : HasFailureMarker(runs[k].stderr)
    /\ \E k \in 1..Len(runs) :
          runs[k].stderr # <<>> /\ ~HasFailureMarker(runs[k].stderr)

DataBefore == IF resultsFile0.exists THEN resultsFile0.data ELSE <<>>

\* C6: with an empty report buffer main returns 0 and the results artifact is
\* neither created nor modified; otherwise the whole buffer is appended to the
\* artifact, keeping what was in it, and main reports failure.
C6_FinalResult ==
    /\ result = <<>> => resultsFile = resultsFile0
    /\ result # <<>> =>
         IF fixNeeded = <<>>
         THEN result = <<0>> /\ resultsFile = resultsFile0
         ELSE /\ result = << -1 >>
              /\ resultsFile.exists
              /\ resultsFile.data = DataBefore \o fixNeeded

\* main reported failure and the results artifact existed before the run
C6_Witness ==
    /\ result = << -1 >>
    /\ resultsFile0.exists
    /\ fixNeeded # <<>>

\* C7: the process always terminates with exit code 1: when main returned 0,
\* when main returned -1 and when a fatal error aborted the run.
C7_ExitCodeOne ==
    /\ pc = "exited" => exitCode = <<1>>
    /\ pc # "exited" => exitCode = <<>>

\* the process exited after main returned 0
C7_Witness == pc = "exited" /\ result = <<0>>

\* C8 as stated: the analyzer is never invoked for a path that contains
\* "build_info", and exactly once for each other file.
C8_AnalysisSkipsBuildInfo ==
    /\ \A k \in 1..Len(runs) : ~HasSub(runs[k].path, BuildInfoMarker)
    /\ pc \in {"final", "returned"} =>
         Len(runs) = Cardinality({k \in 1..Len(files) :
                                     ~HasSub(files[k], BuildInfoMarker)})

RECURSIVE WithoutBuildInfo(_)
WithoutBuildInfo(fs) ==
    IF fs = <<>> THEN <<>>
    ELSE (IF HasSub(Head(fs), BuildInfoMarker) THEN <<>> ELSE <<Head(fs)>>)
         \o WithoutBuildInfo(Tail(fs))

SubmittedPaths == [t \in 1..(Len(results) - 1) |-> results[t + 1].path]

\* C8 (amended): the skip of "build_info" paths is made by AST generation:
\* one AST-generation task is submitted for each other entry of the file list,
\* in order, and none for an entry containing the marker; an analysis phase
\* that runs to its end invokes the analyzer once for every entry of the list.
C8_AstGenerationSkipsBuildInfo ==
    /\ \A t \in DOMAIN results :
          results[t].kind = "compile" => ~HasSub(results[t].path, BuildInfoMarker)
    /\ LeftWaitLoop \/ pc = "wait" =>
          /\ \A t \in 2..Len(results) : results[t].kind = "compile"
          /\ SubmittedPaths = WithoutBuildInfo(files)
    /\ pc \in {"final", "returned"} =>
          [k \in 1..Len(runs) |-> runs[k].path] = files

\* the analysis phase ended having analysed a "build_info" file and another
\* file, with an AST-generation task for the other file only
C8_Witness ==
    /\ pc = "final"
    /\ \E k \in 1..Len(runs) : HasSub(runs[k].path, BuildInfoMarker)
    /\ Len(results) = 2

DefMapTask == {t \in DOMAIN results : results[t].kind = "defmap"}

\* the text of a line without its line terminator
Chomp(line) ==
    IF line # <<>> /\ line[Len(line)] = NL THEN SubSeq(line, 1, Len(line) - 1)
    ELSE line

\* the ways to cut line at one of its spaces
Splits(line) ==
    {[sym |-> SubSeq(line, 1, p - 1), name |-> SubSeq(Chomp(line), p + 1, Len(Chomp(line)))] :
        p \in {q \in 1..Len(Chomp(line)) : line[q] = SP}}

\* line k of the tool's output, with the working directory removed
Stripped(k) == StripCwd(orgFile[k])

\* C9: every line of the final external-def-map artifact is `<symbol-id>
\* <path>` with <path> the AstPathMap value of the filename of its input
\* line; when a non-main input line names a file that is not a key of
\* AstPathMap the build prints every key and fails with a not-found error,
\* and that line is not written.
C9_DefMapResolves ==
    /\ Len(defMapSrc) = Len(defMapFile)
    /\ \A k \in 1..Len(defMapFile) :
          \E c \in Splits(Stripped(defMapSrc[k])) :
             /\ c.name \in DOMAIN ast_path_map
             /\ defMapFile[k] = c.sym \o <<SP>> \o ast_path_map[c.name] \o <<NL>>
    /\ \A t \in DefMapTask :
          /\ results[t].err = "not found" =>
                /\ results[t].state = "raised"
                /\ {printed[k] : k \in DOMAIN printed} = DOMAIN ast_path_map
                /\ \A k \in DOMAIN defMapSrc : defMapSrc[k] < results[t].at
                /\ \E c \in Splits(Stripped(results[t].at)) :
                      c.name \notin DOMAIN ast_path_map
          /\ results[t].state = "done" =>
                \A k \in DOMAIN orgFile :
                   \/ HasSub(Stripped(k), MainMarker)
                   \/ \E c \in Splits(Stripped(k)) : c.name \in DOMAIN ast_path_map

\* the build wrote a resolved line and then failed on a line naming a file
\* that is not in AstPathMap
C9_Witness ==
    /\ defMapFile # <<>>
    /\ printed # <<>>
    /\ \E t \in DefMapTask : results[t].err = "not found" /\ results[t].at = 2

\* C10: if a line of the tool's output does not match the line pattern the
\* build fails and the final artifact holds no entry of this run.
C10_NoPartialMap ==
    \A t \in DefMapTask : results[t].err = "illegal line" => defMapFile = <<>>

DefMapRaised == \E t \in DefMapTask : results[t].state = "raised"

\* C11: in a run where the def-map build task raises (malformed line or
\* unresolved file reference), no analyzer invocation ever occurs and the
\* results artifact is not written, under every interleaving of the build
\* task with the AST-generation tasks.
C11_DefMapErrorAborts ==
    DefMapRaised =>
        /\ runs = <<>>
        /\ active = 0
        /\ pc \notin {"analyze", "analyzing", "final", "returned"}
        /\ result = <<>>
        /\ resultsFile = resultsFile0

\* the process exited after the def-map build raised on an unresolved
\* reference while an AST-generation task had completed
C11_Witness ==
    /\ pc = "exited"
    /\ \E t \in DefMapTask : results[t].err = "not found"
    /\ \E t \in DOMAIN results :
          results[t].kind = "compile" /\ results[t].state = "done"

\* C12: an analyzer run never aborts the run: whatever its stderr and exit
\* status, the analysis loop goes on to the next file, and the report buffer
\* and the overall result depend on the stderr texts only, not on any exit
\* status.
C12_AnalyzerNeverAborts ==
    /\ pc \in {"analyze", "analyzing"} => Len(runs) = i - 1
    /\ pc = "aborted" /\ error.task = 0 =>
          /\ error.err = "KeyError"
          /\ Len(runs) = i - 1
          /\ files[i] \notin DOMAIN cmds
    /\ runs # <<>> => cmd_output.stderr = runs[Len(runs)].stderr
    /\ fixNeeded = FlaggedText(runs)
    /\ result # <<>> =>
          /\ Len(runs) = Len(files)
          /\ result = IF FlaggedText(runs) = <<>> THEN <<0>> ELSE << -1 >>

\* main returned after a flagged run was followed by a run that ended with a
\* non-zero exit status and a stderr without any marker
C12_Witness ==
    /\ pc = "returned"
    /\ Len(runs) = 2
    /\ HasFailureMarker(runs[1].stderr)
    /\ ~HasFailureMarker(cmd_output.stderr)
    /\ cmd_output.returncode # 0
    /\ fixNeeded = runs[1].stderr

\* os.path.join(cwd, ast_path): the file an AST-generation task writes
AstOutputPath(cc_path) == PathJoin(Cwd, ast_path_map[cc_path])

CompileTasks == {t \in DOMAIN results : results[t].kind = "compile"}

\* C13: no two phase-one tasks write the same output artifact: each AST
\* output path is the target of at most one AST-generation task, and the
\* def-map artifacts are written by the single def-map build task.
C13_DisjointOutputs ==
    /\ Cardinality(DefMapTask) <= 1
    /\ \A t \in CompileTasks : \A u \in CompileTasks :
          t # u => AstOutputPath(results[t].path) # AstOutputPath(results[u].path)

\* the symbol-id of a line: the text before its last space
SymbolOf(line) ==
    LET sp == {q \in 1..Len(line) : line[q] = SP}
    IN IF sp = {} THEN <<>>
       ELSE SubSeq(line, 1, (CHOOSE q \in sp : \A q2 \in sp : q2 <= q) - 1)

NonMainLines == {k \in DOMAIN orgFile : ~HasSub(SymbolOf(Stripped(k)), MainMarker)}

\* C14: when every line of the tool's output is well-formed and resolvable,
\* the final artifact holds, in input order, one rewritten line for each input
\* line whose symbol-id does not contain "c:@F@main#I#" and no line for an
\* input line whose symbol-id contains it.
C14_MainFilter ==
    \A t \in DefMapTask : results[t].state = "done" =>
        /\ {defMapSrc[k] : k \in DOMAIN defMapSrc} = NonMainLines
        /\ Len(defMapFile) = Cardinality(NonMainLines)
        /\ \A k \in 1..(Len(defMapSrc) - 1) : defMapSrc[k] < defMapSrc[k + 1]
        /\ \A k \in DOMAIN defMapFile :
              SymbolOf(defMapFile[k]) = SymbolOf(Stripped(defMapSrc[k]))

\* the build completed on an output in which a main line precedes a line
\* that is kept
C14_Witness ==
    /\ \E t \in DefMapTask : results[t].state = "done"
    /\ Len(orgFile) >= 2
    /\ 1 \notin NonMainLines
    /\ defMapSrc # <<>>
    /\ defMapSrc[1] = 2

\* C15: path-prefix stripping is idempotent: for every line and working
\* directory, stripping an already stripped line yields that same line.
C15_StripIdempotent == Len(ret) = 2 => ret[2] = ret[1]

\* C16: at no time do more than 16 submitted tasks run; a task submitted
\* while 16 run stays queued, and several tasks do run at the same time.
C16_BoundedPool == Cardinality(Running) <= MaxWorkers

\* 16 tasks run at the same time while a later one is queued
C16_Witness ==
    /\ Cardinality(Running) = MaxWorkers
    /\ \E t \in DOMAIN results : results[t].state = "pending"

\* the records of the database whose file value is the path looked up
RecordsFor == {k \in DOMAIN call.js : call.js[k].file = call.path}

\* C17: find(path) returns a command whose path is `path` and whose argument
\* list and directory come from the last record of the database with that
\* file value; when no record has that file value the lookup fails.
C17_FindLastWins ==
    Len(ret) >= 1 =>
        IF RecordsFor = {}
        THEN ~ret[1].ok
        ELSE LET rec == call.js[MaxOf(RecordsFor)]
             IN /\ ret[1].ok
                /\ ret[1].cmd.path = call.path
                /\ ret[1].cmd.directory = rec.directory
                /\ ret[1].cmd.cmdline = ShlexSplit(rec.command)

\* two records name the file looked up and differ in command and directory
C17_Witness ==
    /\ Len(ret) >= 1
    /\ ret[1].ok
    /\ \E k, m \in RecordsFor :
         /\ k < m
         /\ call.js[k].command # call.js[m].command
         /\ call.js[k].directory # call.js[m].directory

RECURSIVE Without(_, _)
Without(l, tok) ==
    IF l = <<>> THEN <<>>
    ELSE IF Head(l) = tok THEN Without(Tail(l), tok)
    ELSE <<Head(l)>> \o Without(Tail(l), tok)

\* the stored argument list without its "-c" tokens, then without its first
\* token
RewrittenTail(stored) ==
    LET l == Without(stored, DashC)
    IN IF l = <<>> THEN <<>> ELSE Tail(l)

\* C18: the AST-emission argument list is [tool, "-emit-ast", "-o", output
\* path] followed by R and the analysis argument list is [tool, "--analyze",
\* CTU flags] followed by R, where R is the stored argument list with every
\* "-c" removed and then its first token dropped; the stored command is left
\* unchanged.
C18_RewriteTail ==
    LET tool == LlvmBinaryPath(call.llvm_bin_dir, ClangXX)
        R == RewrittenTail(ret[1].cmd.cmdline)
    IN /\ cmds = ParseDatabase(call.js)
       /\ Len(ret) >= 2 =>
            /\ SubSeq(ret[2], 1, 4) =
                 <<tool, EmitAstFlag, OutputFlag,
                   Cwd \o <<"/">> \o call.path \o AstSuffix>>
            /\ SubSeq(ret[2], 5, Len(ret[2])) = R
            /\ ret[1] = Find(cmds, call.path)
       /\ Len(ret) = 3 =>
            /\ ret[3][1] = tool
            /\ ret[3][2] = AnalyzeFlag
            /\ SubSeq(ret[3], 13, Len(ret[3])) = R

\* both argument lists were built from a stored command with two "-c" tokens
C18_Witness ==
    /\ Len(ret) = 3
    /\ Cardinality({k \in DOMAIN ret[1].cmd.cmdline :
                        ret[1].cmd.cmdline[k] = DashC}) >= 2

\* the source files on the command line of the mapping tool
MappedFiles == {mapArgs[k] : k \in 4..Len(mapArgs)}

\* C19: once every task is submitted, each source file that was passed to the
\* mapping tool and is a key of ast_path_map has an AST-generation task, so
\* every AST path the final map can name is the output of a task of this run.
C19_MappedFilesHaveAstTask ==
    (pc \notin {"submit_defmap", "submit"}) =>
        \A p \in MappedFiles :
            p \in DOMAIN ast_path_map =>
                \E t \in CompileTasks : results[t].path = p

\* C20: when every external process that is started ends, the run reaches
\* process exit for every file list, lists longer than the 16 workers
\* included: the workers and the waiting main thread never block one another.
C20_Terminates == <>(pc = "exited")

\* a run with more tasks than workers has exited
C20_Witness == pc = "exited" /\ Len(results) > MaxWorkers

=============================================================================
